---- MODULE Spec2Model ----
(***************************************************************************)
(* Model of src/Ch02Ex02.py: the Card / AceCard / FaceCard hierarchy and   *)
(* the Suit enumeration.                                                   *)
(*                                                                         *)
(* Text (a Python str) is a sequence of one-character strings.  The four   *)
(* suit symbols are written by their code points: "u2663" (club),          *)
(* "u2666" (diamond), "u2665" (heart), "u2660" (spade).                    *)
(*                                                                         *)
(* An instance is [cls |-> class name, dict |-> its attribute dictionary], *)
(* the dictionary being a function from the names of the attributes set so *)
(* far to their values.                                                    *)
(***************************************************************************)
EXTENDS Integers, Sequences, FiniteSets, TLC

VARIABLES cards, result, suitValue

vars == <<cards, result, suitValue>>

(***************************************************************************)
(* Bounds and input universes                                              *)
(***************************************************************************)
\* Most cards one session of SpecPairs constructs.
MaxCards == 2

Digits == {"0", "1", "2", "3", "4", "5", "6", "7", "8", "9"}

\* The ranks the base class is meant for: "2" .. "10".
NumeralRanks ==
    {<<"2">>, <<"3">>, <<"4">>, <<"5">>, <<"6">>, <<"7">>, <<"8">>, <<"9">>,
     <<"1", "0">>}

FaceRanks == {<<"A">>, <<"K">>, <<"Q">>, <<"J">>}

\* Other rank texts: some int() accepts, some it rejects.
OddRanks ==
    {<<>>, <<"1">>, <<"0">>, <<"1", "1">>, <<"0", "7">>, <<"-", "2">>,
     <<"+", "3">>, <<" ", "2">>, <<"2", " ">>, <<"1", "_", "0">>,
     <<"_", "1">>, <<"1", "_">>, <<"1", "_", "_", "0">>, <<"1", "A">>,
     <<"-">>, <<" ">>, <<"+", " ", "2">>, <<"'">>}

Ranks == NumeralRanks \cup FaceRanks \cup OddRanks

Classes == {"Card", "AceCard", "FaceCard"}

(***************************************************************************)
(* class Suit(str, Enum)                                                   *)
(***************************************************************************)
SuitNames == {"Club", "Diamond", "Heart", "Spade"}

\* The member definitions: name -> symbol.
Suit ==
    [n \in SuitNames |->
        CASE n = "Club" -> <<"u2663">>
          [] n = "Diamond" -> <<"u2666">>
          [] n = "Heart" -> <<"u2665">>
          [] n = "Spade" -> <<"u2660">>]

\* A suit argument is a plain str or a Suit member.  A member is a str
\* (its text is the symbol it was defined with) that also has a name.
StrSuit(t) == [kind |-> "str", name |-> "", str |-> t]
SuitMember(n) == [kind |-> "Suit", name |-> n, str |-> Suit[n]]

Suits == {StrSuit(Suit[n]) : n \in SuitNames} \cup {SuitMember(n) : n \in SuitNames}

(***************************************************************************)
(* Text helpers and the built-in conversions the methods call              *)
(***************************************************************************)
ClassText(cls) ==
    CASE cls = "Card" -> <<"C", "a", "r", "d">>
      [] cls = "AceCard" -> <<"A", "c", "e", "C", "a", "r", "d">>
      [] cls = "FaceCard" -> <<"F", "a", "c", "e", "C", "a", "r", "d">>

NameText(n) ==
    CASE n = "Club" -> <<"C", "l", "u", "b">>
      [] n = "Diamond" -> <<"D", "i", "a", "m", "o", "n", "d">>
      [] n = "Heart" -> <<"H", "e", "a", "r", "t">>
      [] n = "Spade" -> <<"S", "p", "a", "d", "e">>

DigitVal(c) ==
    CASE c = "0" -> 0 [] c = "1" -> 1 [] c = "2" -> 2 [] c = "3" -> 3
      [] c = "4" -> 4 [] c = "5" -> 5 [] c = "6" -> 6 [] c = "7" -> 7
      [] c = "8" -> 8 [] c = "9" -> 9

RECURSIVE LStrip(_)
LStrip(t) == IF t # <<>> /\ Head(t) = " " THEN LStrip(Tail(t)) ELSE t

RECURSIVE RStrip(_)
RStrip(t) ==
    IF t # <<>> /\ t[Len(t)] = " " THEN RStrip(SubSeq(t, 1, Len(t) - 1)) ELSE t

\* The value of a digit string with underscores, most significant first.
RECURSIVE DigitsValue(_, _)
DigitsValue(t, acc) ==
    IF t = <<>> THEN acc
    ELSE IF Head(t) = "_" THEN DigitsValue(Tail(t), acc)
    ELSE DigitsValue(Tail(t), 10 * acc + DigitVal(Head(t)))

\* int(text): surrounding blanks are dropped, one sign is allowed, then
\* decimal digits with single underscores between digits.  ok = FALSE is the
\* ValueError int() raises.
int(t) ==
    LET s == RStrip(LStrip(t))
        signed == s # <<>> /\ Head(s) \in {"+", "-"}
        body == IF signed THEN Tail(s) ELSE s
        n == Len(body)
        wellFormed ==
            /\ n > 0
            /\ body[1] \in Digits
            /\ body[n] \in Digits
            /\ \A i \in 1..n : body[i] \in Digits \cup {"_"}
            /\ \A i \in 1..(n - 1) : ~(body[i] = "_" /\ body[i + 1] = "_")
    IN  IF ~wellFormed THEN [ok |-> FALSE, val |-> 0]
        ELSE [ok |-> TRUE,
              val |-> IF signed /\ Head(s) = "-"
                      THEN 0 - DigitsValue(body, 0)
                      ELSE DigitsValue(body, 0)]

HasChar(t, c) == \E i \in 1..Len(t) : t[i] = c

RECURSIVE Escape(_, _)
Escape(t, q) ==
    IF t = <<>> THEN <<>>
    ELSE (IF Head(t) \in {q, "\\"} THEN <<"\\", Head(t)>> ELSE <<Head(t)>>)
         \o Escape(Tail(t), q)

\* repr() of a str of printable characters: single quotes, unless the text
\* has a single quote and no double quote.
str_repr(t) ==
    LET q == IF HasChar(t, "'") /\ ~HasChar(t, "\"") THEN "\"" ELSE "'"
    IN  <<q>> \o Escape(t, q) \o <<q>>

\* repr() of a suit argument; a Suit member shows as <Suit.Name: 'value'>.
suit_repr(s, values) ==
    IF s.kind = "Suit"
    THEN <<"<", "S", "u", "i", "t", ".">> \o NameText(s.name) \o <<":", " ">>
         \o str_repr(values[s.name]) \o <<">">>
    ELSE str_repr(s.str)

\* format() of a suit argument under the interpreter line 1 names: a member
\* of a str-mixin Enum formats as its value.
suit_format(s, values) == IF s.kind = "Suit" THEN values[s.name] ELSE s.str

\* suit == suit: Enum defines no __eq__, so a member compares as the str it is.
suit_eq(s1, s2) == s1.str = s2.str

(***************************************************************************)
(* class Card, class AceCard(Card), class FaceCard(Card)                   *)
(***************************************************************************)
SetAttr(self, name, v) ==
    [self EXCEPT !.dict =
        [a \in DOMAIN self.dict \cup {name} |-> IF a = name THEN v ELSE self.dict[a]]]

\* Card._points with the soft value copied from FaceCard.
Card_points_SoftTen(self) ==
    LET n == int(self.dict["rank"])
    IN  IF n.ok THEN [raised |-> FALSE, hard |-> n.val, soft |-> 10]
        ELSE [raised |-> TRUE, hard |-> 0, soft |-> 0]

Card_points(self) ==
    LET n == int(self.dict["rank"])
    IN  IF n.ok THEN [raised |-> FALSE, hard |-> n.val, soft |-> n.val]
        ELSE [raised |-> TRUE, hard |-> 0, soft |-> 0]

AceCard_points(self) == [raised |-> FALSE, hard |-> 1, soft |-> 11]

\* FaceCard without its override: the inherited rule runs.
FaceCard_points_Inherited(self) == Card_points(self)

FaceCard_points(self) == [raised |-> FALSE, hard |-> 10, soft |-> 10]

\* Card._points(self) called by name: no dispatch on the instance's class.
points_Static(self) == Card_points(self)

\* self._points(): the method of the instance's own class.
points(self) ==
    CASE self.cls = "AceCard" -> AceCard_points(self)
      [] self.cls = "FaceCard" -> FaceCard_points(self)
      [] OTHER -> Card_points(self)

\* Card.__init__ on a fresh instance.  raised = TRUE is the exception leaving
\* __init__; self is the instance as the assignments so far left it.
Card_init(cls, rank, suit) ==
    LET s0 == [cls |-> cls, dict |-> <<>>]
        s1 == SetAttr(s0, "suit", suit)
        s2 == SetAttr(s1, "rank", rank)
        p == points(s2)
    IN  IF p.raised THEN [raised |-> TRUE, self |-> s2]
        ELSE [raised |-> FALSE,
              self |-> SetAttr(SetAttr(s2, "hard", p.hard), "soft", p.soft)]

\* __eq__ that forgets soft.
Card_eq_NoSoft(self, other) ==
    /\ suit_eq(self.dict["suit"], other.dict["suit"])
    /\ self.dict["rank"] = other.dict["rank"]
    /\ self.dict["hard"] = other.dict["hard"]

\* __eq__ that forgets rank.
Card_eq_NoRank(self, other) ==
    /\ suit_eq(self.dict["suit"], other.dict["suit"])
    /\ self.dict["hard"] = other.dict["hard"]
    /\ self.dict["soft"] = other.dict["soft"]

\* __eq__ as a dataclass generates it: the classes must match too.
Card_eq_SameClass(self, other) ==
    /\ self.cls = other.cls
    /\ suit_eq(self.dict["suit"], other.dict["suit"])
    /\ self.dict["rank"] = other.dict["rank"]
    /\ self.dict["hard"] = other.dict["hard"]
    /\ self.dict["soft"] = other.dict["soft"]

Card_eq(self, other) ==
    /\ suit_eq(self.dict["suit"], other.dict["suit"])
    /\ self.dict["rank"] = other.dict["rank"]
    /\ self.dict["hard"] = other.dict["hard"]
    /\ self.dict["soft"] = other.dict["soft"]

\* __repr__ with the base class's name written out.
Card_repr_BaseName(self, values) ==
    <<"C", "a", "r", "d">> \o <<"(", "s", "u", "i", "t", "=">>
    \o suit_repr(self.dict["suit"], values)
    \o <<",", " ", "r", "a", "n", "k", "=">>
    \o str_repr(self.dict["rank"]) \o <<")">>

Card_repr(self, values) ==
    ClassText(self.cls) \o <<"(", "s", "u", "i", "t", "=">>
    \o suit_repr(self.dict["suit"], values)
    \o <<",", " ", "r", "a", "n", "k", "=">>
    \o str_repr(self.dict["rank"]) \o <<")">>

Card_str(self, values) == self.dict["rank"] \o suit_format(self.dict["suit"], values)

(***************************************************************************)
(* The session: cards constructed so far, the outcome of the last          *)
(* operation, and the value each Suit member holds.                        *)
(***************************************************************************)
NoResult == [op |-> "none", args |-> <<>>, err |-> "none", value |-> <<>>]

Init ==
    /\ cards = <<>>
    /\ result = NoResult
    /\ suitValue = Suit

\* A constructor call whose exception is swallowed: the instance is bound
\* as __init__ left it.
Construct_Swallow(cls, rank, suit) ==
    LET r == Card_init(cls, rank, suit)
    IN  /\ cards' = Append(cards, r.self)
        /\ result' = [op |-> "init", args |-> <<cls, rank, suit>>,
                      err |-> IF r.raised THEN "ValueError" ELSE "none",
                      value |-> <<>>]
        /\ UNCHANGED suitValue

\* x = Cls(rank, suit): the instance is bound only when __init__ returns.
Construct(cls, rank, suit) ==
    LET r == Card_init(cls, rank, suit)
    IN  /\ cards' = IF r.raised THEN cards ELSE Append(cards, r.self)
        /\ result' = [op |-> "init", args |-> <<cls, rank, suit>>,
                      err |-> IF r.raised THEN "ValueError" ELSE "none",
                      value |-> <<>>]
        /\ UNCHANGED suitValue

\* The one card of a single-card session.
FirstCard(cls, rank, suit) ==
    /\ cards = <<>>
    /\ Construct(cls, rank, suit)

\* One more card of a session of several cards.
NextCard(cls, rank, suit) ==
    /\ Len(cards) < MaxCards
    /\ Construct(cls, rank, suit)

\* cards[i] == cards[j]
Eq(i, j) ==
    /\ result' = [op |-> "eq", args |-> <<i, j>>, err |-> "none",
                  value |-> Card_eq(cards[i], cards[j])]
    /\ UNCHANGED <<cards, suitValue>>

\* repr(cards[i])
Repr(i) ==
    /\ result' = [op |-> "repr", args |-> <<i>>, err |-> "none",
                  value |-> Card_repr(cards[i], suitValue)]
    /\ UNCHANGED <<cards, suitValue>>

\* __str__ that stores the text it builds as the card's rank.
Str_StoresRank(i) ==
    /\ result' = [op |-> "str", args |-> <<i>>, err |-> "none",
                  value |-> Card_str(cards[i], suitValue)]
    /\ cards' = [cards EXCEPT ![i] = SetAttr(@, "rank", Card_str(cards[i], suitValue))]
    /\ UNCHANGED suitValue

\* str(cards[i])
Str(i) ==
    /\ result' = [op |-> "str", args |-> <<i>>, err |-> "none",
                  value |-> Card_str(cards[i], suitValue)]
    /\ UNCHANGED <<cards, suitValue>>

\* value as a plain attribute: the assignment goes through.
SetValue_Assign(n, v) ==
    /\ result' = [op |-> "setvalue", args |-> <<n, v>>, err |-> "none",
                  value |-> <<>>]
    /\ suitValue' = [suitValue EXCEPT ![n] = v]
    /\ UNCHANGED cards

\* Suit.<n>.value = v: value is a property without a setter.
SetValue(n, v) ==
    /\ result' = [op |-> "setvalue", args |-> <<n, v>>, err |-> "AttributeError",
                  value |-> <<>>]
    /\ UNCHANGED <<cards, suitValue>>

\* Texts a caller tries to store in a member.
NewValues == {<<"H">>, <<"u2660">>}

Ops ==
    \/ \E i \in 1..Len(cards), j \in 1..Len(cards) : Eq(i, j)
    \/ \E i \in 1..Len(cards) : Repr(i)
    \/ \E i \in 1..Len(cards) : Str(i)
    \/ \E n \in SuitNames, v \in NewValues : SetValue(n, v)

\* Single-card sessions over every class, rank and suit.
Next ==
    \/ \E cls \in Classes, rank \in Ranks, suit \in Suits : FirstCard(cls, rank, suit)
    \/ Ops

Spec == Init /\ [][Next]_vars

\* Sessions of up to MaxCards cards over fewer ranks and suits.
PairRanks == {<<"1">>, <<"1", "0">>, <<"Q">>}

PairSuits == {StrSuit(Suit["Spade"]), SuitMember("Spade"), StrSuit(Suit["Heart"])}

NextPairs ==
    \/ \E cls \in Classes, rank \in PairRanks, suit \in PairSuits :
          NextCard(cls, rank, suit)
    \/ Ops

SpecPairs == Init /\ [][NextPairs]_vars

(***************************************************************************)
(* Properties                                                              *)
(***************************************************************************)
Attrs == {"suit", "rank", "hard", "soft"}

Idx == 1..Len(cards)

\* The integer each numeral rank denotes, written out.
NumeralValue(rank) ==
    CASE rank = <<"2">> -> 2 [] rank = <<"3">> -> 3 [] rank = <<"4">> -> 4
      [] rank = <<"5">> -> 5 [] rank = <<"6">> -> 6 [] rank = <<"7">> -> 7
      [] rank = <<"8">> -> 8 [] rank = <<"9">> -> 9 [] rank = <<"1", "0">> -> 10

\* The last operation constructed (or tried to construct) a cls.
Constructing(cls) == result.op = "init" /\ result.args[1] = cls

\* C1: for every numeral rank "2".."10" and every suit, constructing a base
\* Card succeeds, and the card's hard and soft both equal the integer the
\* rank denotes.
C1_NumeralCardPoints ==
    /\ \A i \in Idx :
          (cards[i].cls = "Card" /\ cards[i].dict["rank"] \in NumeralRanks)
          => /\ cards[i].dict["hard"] = NumeralValue(cards[i].dict["rank"])
             /\ cards[i].dict["soft"] = NumeralValue(cards[i].dict["rank"])
    /\ (Constructing("Card") /\ result.args[2] \in NumeralRanks)
       => /\ result.err = "none"
          /\ cards # <<>>
          /\ cards[Len(cards)].cls = "Card"
          /\ cards[Len(cards)].dict["rank"] = result.args[2]
          /\ cards[Len(cards)].dict["suit"] = result.args[3]

C1_Witness ==
    /\ Constructing("Card")
    /\ result.args[2] = <<"1", "0">>
    /\ result.args[3] = SuitMember("Heart")
    /\ cards # <<>>
    /\ cards[1].dict["hard"] = 10
    /\ cards[1].dict["soft"] = 10

\* C2: constructing an AceCard with any rank text and any suit succeeds and
\* gives hard 1 and soft 11; the rank is never parsed.
C2_AceCardPoints ==
    /\ \A i \in Idx :
          cards[i].cls = "AceCard"
          => cards[i].dict["hard"] = 1 /\ cards[i].dict["soft"] = 11
    /\ Constructing("AceCard")
       => /\ result.err = "none"
          /\ cards # <<>>
          /\ cards[Len(cards)].cls = "AceCard"
          /\ cards[Len(cards)].dict["rank"] = result.args[2]

C2_Witness ==
    /\ Constructing("AceCard")
    /\ result.args[2] = <<"A">>
    /\ cards # <<>>
    /\ cards[1].cls = "AceCard"
    /\ cards[1].dict["hard"] = 1
    /\ cards[1].dict["soft"] = 11

\* C3: constructing a FaceCard with any rank text and any suit succeeds and
\* gives hard 10 and soft 10; the rank is never parsed.
C3_FaceCardPoints ==
    /\ \A i \in Idx :
          cards[i].cls = "FaceCard"
          => cards[i].dict["hard"] = 10 /\ cards[i].dict["soft"] = 10
    /\ Constructing("FaceCard")
       => /\ result.err = "none"
          /\ cards # <<>>
          /\ cards[Len(cards)].cls = "FaceCard"
          /\ cards[Len(cards)].dict["rank"] = result.args[2]

C3_Witness ==
    /\ Constructing("FaceCard")
    /\ result.args[2] = <<"Q">>
    /\ cards # <<>>
    /\ cards[1].cls = "FaceCard"
    /\ cards[1].dict["hard"] = 10
    /\ cards[1].dict["soft"] = 10

\* The four attributes of a and b match, suits compared as Python's == does.
SameFields(a, b) ==
    /\ a.dict["suit"].str = b.dict["suit"].str
    /\ a.dict["rank"] = b.dict["rank"]
    /\ a.dict["hard"] = b.dict["hard"]
    /\ a.dict["soft"] = b.dict["soft"]

\* C4: for any two constructed cards a and b, a == b is true exactly when
\* suit, rank, hard and soft all match.
C4_EqIffFieldsMatch ==
    /\ \A i \in Idx, j \in Idx :
          Card_eq(cards[i], cards[j]) <=> SameFields(cards[i], cards[j])
    /\ result.op = "eq"
       => (result.value <=> SameFields(cards[result.args[1]], cards[result.args[2]]))

\* An AceCard was compared with a base Card that differs from it in soft only.
C4_Witness ==
    /\ result.op = "eq"
    /\ result.value = FALSE
    /\ LET a == cards[result.args[1]]
           b == cards[result.args[2]]
       IN  /\ a.cls = "AceCard"
           /\ b.cls = "Card"
           /\ a.dict["suit"] = b.dict["suit"]
           /\ a.dict["rank"] = b.dict["rank"]
           /\ a.dict["hard"] = b.dict["hard"]
           /\ a.dict["soft"] # b.dict["soft"]

\* C5: two cards constructed with the same suit, rank and class are equal,
\* and two cards whose suits differ or whose ranks differ are unequal.
C5_SameArgsEqualDifferentUnequal ==
    \A i \in Idx, j \in Idx :
        LET a == cards[i]
            b == cards[j]
        IN  /\ (/\ a.cls = b.cls
                /\ a.dict["suit"] = b.dict["suit"]
                /\ a.dict["rank"] = b.dict["rank"])
               => Card_eq(a, b)
            /\ (\/ a.dict["suit"].str # b.dict["suit"].str
                \/ a.dict["rank"] # b.dict["rank"])
               => ~Card_eq(a, b)

\* Two cards built from the same arguments were compared and found equal.
C5_Witness ==
    /\ Len(cards) = 2
    /\ cards[1] = cards[2]
    /\ cards[1].cls = "FaceCard"
    /\ result.op = "eq"
    /\ result.args = <<1, 2>>
    /\ result.value = TRUE

\* C6: a card's suit, rank, hard and soft are set at construction and no
\* later operation (==, repr, str) changes them.
C6_CardsNeverChange ==
    [][/\ Len(cards') >= Len(cards)
       /\ \A i \in Idx : cards'[i] = cards[i]]_vars

\* After an operation on a card, the card is as its constructor made it.
C6_Witness ==
    /\ Len(cards) = MaxCards
    /\ result.op \in {"eq", "repr", "str"}
    /\ \A i \in Idx :
          cards[i] = Card_init(cards[i].cls, cards[i].dict["rank"],
                               cards[i].dict["suit"]).self

\* C7: each Suit member holds its fixed symbol; assigning to a member's
\* value fails with AttributeError and leaves the value as it was.
C7_SuitValuesFixed ==
    /\ suitValue["Club"] = <<"u2663">>
    /\ suitValue["Diamond"] = <<"u2666">>
    /\ suitValue["Heart"] = <<"u2665">>
    /\ suitValue["Spade"] = <<"u2660">>
    /\ result.op = "setvalue" => result.err = "AttributeError"

C7_Witness ==
    /\ result.op = "setvalue"
    /\ result.args = <<"Heart", <<"H">>>>
    /\ result.err = "AttributeError"
    /\ suitValue["Heart"] = <<"u2665">>

\* Text that is plainly no numeral: it has no digit, or it has a character
\* that is neither a digit, a sign, a blank nor an underscore.
NotNumeral(t) ==
    \/ \A k \in 1..Len(t) : t[k] \notin Digits
    \/ \E k \in 1..Len(t) : t[k] \notin Digits \cup {"+", "-", " ", "_"}

\* C8: constructing a plain Card with a rank that is no numeral text fails
\* with ValueError and binds no card; every card that exists has suit, rank,
\* hard and soft all set.
C8_ConstructionAllOrNothing ==
    /\ (Constructing("Card") /\ NotNumeral(result.args[2]))
       => result.err = "ValueError" /\ cards = <<>>
    /\ (result.op = "init" /\ result.err = "ValueError") => cards = <<>>
    /\ \A i \in Idx : DOMAIN cards[i].dict = Attrs

C8_Witness ==
    /\ Constructing("Card")
    /\ result.args[2] = <<"A">>
    /\ result.err = "ValueError"
    /\ cards = <<>>

Quoted(t) ==
    IF HasChar(t, "'") THEN <<"\"">> \o t \o <<"\"">> ELSE <<"'">> \o t \o <<"'">>

ReprHead(cls) == ClassText(cls) \o <<"(", "s", "u", "i", "t", "=">>

ReprTail(rank) == <<",", " ", "r", "a", "n", "k", "=">> \o Quoted(rank) \o <<")">>

IsCard(c, cls, rank, suit) ==
    c.cls = cls /\ c.dict["rank"] = rank /\ c.dict["suit"] = suit

\* C9: the machine-oriented form of a card is ClassName(suit=..., rank=...)
\* with the name of the card's own class and the suit and rank quoted;
\* AceCard("A","♠"), Card("2","♠") and FaceCard("Q","♠") give
\* AceCard(suit='♠', rank='A'), Card(suit='♠', rank='2') and
\* FaceCard(suit='♠', rank='Q').
C9_ReprNamesOwnClass ==
    result.op = "repr"
    => LET c == cards[result.args[1]]
           v == result.value
           h == ReprHead(c.cls)
           t == ReprTail(c.dict["rank"])
       IN  /\ Len(v) > Len(h) + Len(t)
           /\ SubSeq(v, 1, Len(h)) = h
           /\ SubSeq(v, Len(v) - Len(t) + 1, Len(v)) = t
           /\ c.dict["suit"].kind = "str"
              => v = h \o Quoted(c.dict["suit"].str) \o t
           /\ IsCard(c, "AceCard", <<"A">>, StrSuit(<<"u2660">>))
              => v = <<"A", "c", "e", "C", "a", "r", "d", "(", "s", "u", "i",
                       "t", "=", "'", "u2660", "'", ",", " ", "r", "a", "n",
                       "k", "=", "'", "A", "'", ")">>
           /\ IsCard(c, "Card", <<"2">>, StrSuit(<<"u2660">>))
              => v = <<"C", "a", "r", "d", "(", "s", "u", "i", "t", "=", "'",
                       "u2660", "'", ",", " ", "r", "a", "n", "k", "=", "'",
                       "2", "'", ")">>
           /\ IsCard(c, "FaceCard", <<"Q">>, StrSuit(<<"u2660">>))
              => v = <<"F", "a", "c", "e", "C", "a", "r", "d", "(", "s", "u",
                       "i", "t", "=", "'", "u2660", "'", ",", " ", "r", "a",
                       "n", "k", "=", "'", "Q", "'", ")">>

C9_Witness ==
    /\ result.op = "repr"
    /\ IsCard(cards[1], "FaceCard", <<"Q">>, StrSuit(<<"u2660">>))
    /\ result.value = <<"F", "a", "c", "e", "C", "a", "r", "d", "(", "s", "u",
                        "i", "t", "=", "'", "u2660", "'", ",", " ", "r", "a",
                        "n", "k", "=", "'", "Q", "'", ")">>

\* C10: equality ignores the class: cards of different classes are equal
\* whenever suit, rank, hard and soft coincide (Card "10" and FaceCard "10"
\* of one suit, both ways round), and an AceCard never equals a base Card
\* or a FaceCard.
C10_EqIgnoresClass ==
    \A i \in Idx, j \in Idx :
        LET a == cards[i]
            b == cards[j]
        IN  /\ SameFields(a, b) => Card_eq(a, b) /\ Card_eq(b, a)
            /\ (/\ a.cls = "Card"
                /\ b.cls = "FaceCard"
                /\ a.dict["rank"] = <<"1", "0">>
                /\ b.dict["rank"] = <<"1", "0">>
                /\ a.dict["suit"] = b.dict["suit"])
               => Card_eq(a, b) /\ Card_eq(b, a)
            /\ (a.cls = "AceCard" /\ b.cls # "AceCard")
               => ~Card_eq(a, b) /\ ~Card_eq(b, a)

\* A FaceCard "10" was compared with a base Card "10" of the same suit and
\* found equal.
C10_Witness ==
    /\ result.op = "eq"
    /\ result.value = TRUE
    /\ LET a == cards[result.args[1]]
           b == cards[result.args[2]]
       IN  /\ a.cls = "FaceCard"
           /\ b.cls = "Card"
           /\ a.dict["rank"] = <<"1", "0">>
           /\ b.dict["rank"] = <<"1", "0">>
           /\ a.dict["suit"] = b.dict["suit"]

====
